---- MODULE Spec2Model ----
(***************************************************************************)
(* Model of vaultchef's shopping-list core (src/vaultchef/shopping.py):    *)
(* the ingredient-line parser, the aggregator, the formatter and the       *)
(* consistency checker, driven by build_shopping_list.                     *)
(*                                                                         *)
(* Text is modelled by TLA+ strings; a character is a string of length 1.  *)
(* Fractions are reduced pairs <<numerator, denominator>>.                 *)
(***************************************************************************)
EXTENDS Integers, Sequences, FiniteSets, TLC

(***************************************************************************)
(* Bounds of the model.                                                    *)
(***************************************************************************)
\* number of recipe documents handed to build_shopping_list
MaxDocs == 2
\* number of lines of one recipe's Ingredients section
MaxLines == 3
\* number of items of one build
MaxItems == 4
\* the largest numerator and denominator of a quantity formatted alone
MaxNumerator == 40
MaxDivisor == 20

(***************************************************************************)
(* Characters and Python's str helpers.                                    *)
(*                                                                         *)
(* The(S) is the element of a singleton set.  The({e(v) : v \in {x}})      *)
(* evaluates x once and names its value v: where a value is used many      *)
(* times it is bound this way, because TLC may re-evaluate the body of a   *)
(* LET definition or an operator argument at every use.  Loops over the    *)
(* characters of a text are recursive functions of the index.              *)
(***************************************************************************)
The(S) == CHOOSE r \in S : TRUE

Ch(s, i) == SubSeq(s, i, i)

\* the characters str.strip() and the regex class \s remove
Whitespace == {" ", "\t"}
IsSpace(c) == c \in Whitespace

Digits == {"0", "1", "2", "3", "4", "5", "6", "7", "8", "9"}
IsDigit(c) == c \in Digits

UpperChars == "ABCDEFGHIJKLMNOPQRSTUVWXYZ"
LowerChars == "abcdefghijklmnopqrstuvwxyz"

UpperSet ==
    {"A", "B", "C", "D", "E", "F", "G", "H", "I", "J", "K", "L", "M",
     "N", "O", "P", "Q", "R", "S", "T", "U", "V", "W", "X", "Y", "Z"}
LowerSet ==
    {"a", "b", "c", "d", "e", "f", "g", "h", "i", "j", "k", "l", "m",
     "n", "o", "p", "q", "r", "s", "t", "u", "v", "w", "x", "y", "z"}

\* the regex class \w, as far as \b needs it
IsWord(c) == c \in LowerSet \/ c \in Digits \/ c \in UpperSet \/ c = "_"

\* str.lower() on one character
LowerChar(c) ==
    IF c \in UpperSet
    THEN The({Ch(LowerChars, i) : i \in {j \in 1..26 : Ch(UpperChars, j) = c}})
    ELSE c

\* str.lower()
Lower(s) ==
    The({LET low[i \in 1..(Len(v) + 1)] ==
                 IF i > Len(v) THEN "" ELSE LowerChar(Ch(v, i)) \o low[i + 1]
         IN  low[1] : v \in {s}})

\* printable ASCII (without the quotes and the backslash) in code-point order;
\* Python compares str by code point
AsciiOrder ==
    " !#$%&'()*+,-./0123456789:;<=>?@ABCDEFGHIJKLMNOPQRSTUVWXYZ[]^_abcdefghijklmnopqrstuvwxyz{|}~"

\* the rank of a character in code-point order
Ord(c) == The({i \in 1..Len(AsciiOrder) : Ch(AsciiOrder, i) = c})

\* a < b for two str
StrLess(a, b) ==
    The({LET less[i \in 1..(Len(y) + 1)] ==
                 IF i > Len(y) THEN FALSE
                 ELSE IF i > Len(x) THEN TRUE
                 ELSE IF Ch(x, i) = Ch(y, i) THEN less[i + 1]
                 ELSE Ord(Ch(x, i)) < Ord(Ch(y, i))
         IN  less[1] : x \in {a}, y \in {b}})

\* index of the first character at or after i that is not in cs (Len+1 if none)
SkipFwd(s, i, cs) ==
    LET skip[j \in 1..(Len(s) + 1)] ==
            IF j <= Len(s) /\ Ch(s, j) \in cs THEN skip[j + 1] ELSE j
    IN  IF i > Len(s) THEN i ELSE skip[i]

\* index of the last character at or before j that is not in cs (0 if none)
SkipBack(s, j, cs) ==
    LET skip[i \in 0..Len(s)] ==
            IF i >= 1 /\ Ch(s, i) \in cs THEN skip[i - 1] ELSE i
    IN  skip[j]

\* str.strip(chars)
StripChars(s, cs) ==
    The({SubSeq(v, SkipFwd(v, 1, cs), SkipBack(v, Len(v), cs)) : v \in {s}})

\* str.rstrip(chars)
RStripChars(s, cs) == The({SubSeq(v, 1, SkipBack(v, Len(v), cs)) : v \in {s}})

\* str.strip()
Strip(s) == StripChars(s, Whitespace)

\* index of the first occurrence of character c at or after i (Len+1 if none)
Find(s, c, i) ==
    LET find[j \in 1..(Len(s) + 1)] ==
            IF j > Len(s) \/ Ch(s, j) = c THEN j ELSE find[j + 1]
    IN  IF i > Len(s) THEN Len(s) + 1 ELSE find[i]

Contains(s, c) == The({Find(v, c, 1) <= Len(v) : v \in {s}})

\* str.partition(c) / str.split(c, 1): the text before and after the first c
Before(s, c) == The({SubSeq(v, 1, Find(v, c, 1) - 1) : v \in {s}})
After(s, c) == The({SubSeq(v, Find(v, c, 1) + 1, Len(v)) : v \in {s}})

(***************************************************************************)
(* Exact rational numbers (fractions.Fraction): reduced <<num, den>>,      *)
(* den > 0.  None is the absent quantity.                                  *)
(***************************************************************************)
None == <<>>

Abs(n) == IF n < 0 THEN -n ELSE n

RECURSIVE Gcd(_, _)
Gcd(a, b) == IF b = 0 THEN a ELSE The({Gcd(x, y) : x \in {b}, y \in {a % b}})

\* Fraction(n, d) for d # 0
Fraction(n, d) ==
    The({The({IF y < 0 THEN <<-(x \div g), -(y \div g)>> ELSE <<x \div g, y \div g>>
              : g \in {Gcd(Abs(x), Abs(y))}})
         : x \in {n}, y \in {d}})

\* Fraction.__add__
FracAdd(p, q) ==
    The({Fraction(x[1] * y[2] + y[1] * x[2], x[2] * y[2]) : x \in {p}, y \in {q}})

\* |x - p| <= |x - q| for fractions x, p, q
CloserOrEqual(x, p, q) ==
    Abs(p[1] * x[2] - x[1] * p[2]) * q[2] <= Abs(q[1] * x[2] - x[1] * q[2]) * p[2]

\* the loop of Fraction.limit_denominator: the convergents of n/d while the
\* denominator stays within max; c is <<p0, q0, p1, q1, n, d>> and the
\* result is c when the loop breaks
RECURSIVE Convergents(_, _)
Convergents(c, max) ==
    The({IF q2 > max THEN c
         ELSE The({Convergents(next, max)
                   : next \in {<<c[3], c[4], c[1] + (c[5] \div c[6]) * c[3], q2,
                                 c[6], c[5] - (c[5] \div c[6]) * c[6]>>}})
         : q2 \in {c[2] + (c[5] \div c[6]) * c[4]}})

\* a faulty rounding to the nearest multiple of 1/max
RoundToMultiple(x0, max) ==
    IF x0[2] <= max THEN x0
    ELSE Fraction((2 * x0[1] * max + x0[2]) \div (2 * x0[2]), max)

\* Fraction.limit_denominator(max)
LimitDenominator(x0, max) ==
    The({IF x[2] <= max THEN x
         ELSE The({The({The({IF CloserOrEqual(x, b[2], b[1]) THEN b[2] ELSE b[1]
                             : b \in {<<Fraction(c[1] + k * c[3], c[2] + k * c[4]),
                                        Fraction(c[3], c[4])>>}})
                        : k \in {(max - c[2]) \div c[4]}})
                   : c \in {Convergents(<<0, 1, 1, 0, x[1], x[2]>>, max)}})
         : x \in {x0}})

(***************************************************************************)
(* Numbers in text.                                                        *)
(***************************************************************************)
DigitValue(c) == The({v \in 0..9 : Ch("0123456789", v + 1) = c})

AllDigits(s) == The({Len(v) > 0 /\ SkipFwd(v, 1, Digits) > Len(v) : v \in {s}})

\* the value of a run of digits
DigitsValue(s) ==
    The({LET val[j \in 0..Len(v)] ==
                 IF j = 0 THEN 0 ELSE 10 * val[j - 1] + DigitValue(Ch(v, j))
         IN  val[Len(v)] : v \in {s}})

Pow10(k) ==
    LET pow[j \in 0..k] == IF j = 0 THEN 1 ELSE 10 * pow[j - 1]
    IN  pow[k]

\* int(text): surrounding whitespace and one sign are accepted; anything
\* else than digits raises ValueError ('_' grouping is not modelled)
IntText(t) ==
    The({IF Len(u) > 0 /\ Ch(u, 1) \in {"+", "-"} THEN SubSeq(u, 2, Len(u)) ELSE u
         : u \in {Strip(t)}})

IsInt(t) == AllDigits(IntText(t))

IntOf(t) ==
    The({IF Ch(u, 1) = "-" THEN -DigitsValue(IntText(u)) ELSE DigitsValue(IntText(u))
         : u \in {Strip(t)}})

\* the digits of a decimal numeral: digits with at most one point among them
IsPlainDecimal(t) ==
    The({/\ (IF a <= Len(t) /\ Ch(t, a) = "." THEN SkipFwd(t, a + 1, Digits) ELSE a)
                > Len(t)
         /\ \E i \in 1..Len(t) : IsDigit(Ch(t, i))
         : a \in {SkipFwd(t, 1, Digits)}})

\* a numeral without its sign, and the parts before and after its exponent
\* mark
Unsigned(t) == IF Len(t) > 0 /\ Ch(t, 1) \in {"+", "-"} THEN SubSeq(t, 2, Len(t)) ELSE t
Mantissa(t) == Before(Lower(Unsigned(t)), "e")
ExponentText(t) == After(Lower(Unsigned(t)), "e")

\* Decimal(text) accepts [sign] digits[.digits] [e [sign] digits] as a finite
\* number ('_' grouping is not modelled); otherwise InvalidOperation, unless
\* the text is a special value
IsDecimal(t) ==
    /\ IsPlainDecimal(Mantissa(t))
    /\ Contains(Lower(Unsigned(t)), "e") => AllDigits(Unsigned(ExponentText(t)))

StartsWith(s, prefix) == Len(s) >= Len(prefix) /\ SubSeq(s, 1, Len(prefix)) = prefix

\* Decimal(text) accepts the special values [sign] Inf, Infinity, NaN, sNaN
\* (NaN with optional digits) in any case: the exception Fraction(Decimal)
\* raises for them, "" for any other text
SpecialDecimal(t) ==
    The({IF u \in {"inf", "infinity"} THEN "OverflowError"
         ELSE IF \/ StartsWith(u, "nan") /\ SkipFwd(u, 4, Digits) > Len(u)
                 \/ StartsWith(u, "snan") /\ SkipFwd(u, 5, Digits) > Len(u)
         THEN "ValueError"
         ELSE ""
         : u \in {Lower(Unsigned(t))}})

\* Fraction(Decimal(text)) for a finite number
DecimalOf(t) ==
    The({The({IF e >= 0 THEN Fraction(sign * n * Pow10(e), Pow10(Len(p[2])))
              ELSE Fraction(sign * n, Pow10(Len(p[2])) * Pow10(-e))
              : n \in {DigitsValue(p[1]) * Pow10(Len(p[2])) + DigitsValue(p[2])}})
         : p \in {<<Before(Mantissa(t), "."), After(Mantissa(t), ".")>>},
           sign \in {IF Len(t) > 0 /\ Ch(t, 1) = "-" THEN -1 ELSE 1},
           e \in {IF ExponentText(t) = "" THEN 0 ELSE IntOf(ExponentText(t))}})

(***************************************************************************)
(* The regular expressions of shopping.py.  A pattern is matched piece by  *)
(* piece: each piece takes the index p where it starts (0 when an earlier  *)
(* piece failed) and gives the index after its match, or 0.                *)
(***************************************************************************)
\* \d+ and \s+ (greedy; a shorter match never helps the patterns below)
Run(s, p0, cs) ==
    The({IF p = 0 THEN 0
         ELSE The({IF e > p THEN e ELSE 0 : e \in {SkipFwd(s, p, cs)}})
         : p \in {p0}})

\* one literal character
Lit(s, p0, c) ==
    The({IF p # 0 /\ p <= Len(s) /\ Ch(s, p) = c THEN p + 1 ELSE 0 : p \in {p0}})

\* \b after a digit that ends at index p - 1
Boundary(s, p0) ==
    The({IF p # 0 /\ (p > Len(s) \/ ~IsWord(Ch(s, p))) THEN p ELSE 0 : p \in {p0}})

\* BULLET_RE = ^\s*[-*+]\s+(.*)$ : 0 when the line does not match, else the
\* index where group 1 starts
BulletStart(line) ==
    The({IF m <= Len(line) /\ Ch(line, m) \in {"-", "*", "+"}
         THEN Run(line, m + 1, Whitespace) ELSE 0
         : m \in {SkipFwd(line, 1, Whitespace)}})

BulletMatches(line) == BulletStart(line) # 0
BulletGroup(line) == SubSeq(line, BulletStart(line), Len(line))

\* the three alternatives of QUANTITY_RE's qty group, each followed by \b:
\* the index after the match, 0 when the alternative fails
\*   \d+\s+\d+/\d+
MixedEnd(s) ==
    Boundary(s, Run(s, Lit(s, Run(s, Run(s, Run(s, 1, Digits), Whitespace), Digits),
                           "/"), Digits))

\*   \d+/\d+
PlainFractionEnd(s) == Boundary(s, Run(s, Lit(s, Run(s, 1, Digits), "/"), Digits))

\*   \d+(?:\.\d+)?  (the optional group is given up when \b fails after it)
NumberEnd(s) ==
    The({The({IF e # 0 THEN e ELSE Boundary(s, a)
              : e \in {Boundary(s, Run(s, Lit(s, a, "."), Digits))}})
         : a \in {Run(s, 1, Digits)}})

\* QUANTITY_RE = ^(?P<qty>...)\b\s*(?P<rest>.*)$ : the index after group qty,
\* 0 when the text does not match
QuantityEnd(s) ==
    The({IF m # 0 THEN m
         ELSE The({IF f # 0 THEN f ELSE NumberEnd(s) : f \in {PlainFractionEnd(s)}})
         : m \in {MixedEnd(s)}})

\* the groups qty and rest of a match that ends group qty before index e
QuantityGroup(s, e) == SubSeq(s, 1, e - 1)
RestGroup(s, e) == SubSeq(s, SkipFwd(s, e, Whitespace), Len(s))

\* PARENS_RE.sub(" ", s) with PARENS_RE = \s*\([^)]*\)\s* : the leftmost match
\* at or after i is the first "(" that has a ")" behind it, together with the
\* white space around the pair; p is <<index of "(", index of ")">>
ParensSub(s) ==
    The({LET sub[i \in 1..(Len(v) + 1)] ==
                 The({IF p[2] > Len(v) THEN SubSeq(v, i, Len(v))
                      ELSE SubSeq(v, i, SkipBack(SubSeq(v, i, p[1] - 1), p[1] - i,
                                                 Whitespace) + i - 1)
                               \o " " \o sub[SkipFwd(v, p[2] + 1, Whitespace)]
                      : p \in {<<Find(v, "(", i), Find(v, ")", Find(v, "(", i) + 1)>>}})
         IN  sub[1] : v \in {s}})

\* index of the first character at or after i that is in cs (Len+1 if none)
SkipTo(s, i, cs) ==
    LET skip[j \in 1..(Len(s) + 1)] ==
            IF j <= Len(s) /\ Ch(s, j) \notin cs THEN skip[j + 1] ELSE j
    IN  IF i > Len(s) THEN Len(s) + 1 ELSE skip[i]

\* SPACE_RE.sub(" ", s) with SPACE_RE = \s+ ; w is the start of the next run
SpaceSub(s) ==
    The({LET sub[i \in 1..(Len(v) + 1)] ==
                 The({IF w > Len(v) THEN SubSeq(v, i, Len(v))
                      ELSE SubSeq(v, i, w - 1) \o " " \o sub[SkipFwd(v, w, Whitespace)]
                      : w \in {SkipTo(v, i, Whitespace)}})
         IN  sub[1] : v \in {s}})

(***************************************************************************)
(* Units and names.                                                        *)
(***************************************************************************)
AliasNames ==
    {"tsp", "teaspoon", "teaspoons", "tbsp", "tablespoon", "tablespoons",
     "g", "gram", "grams", "kg", "kilogram", "kilograms",
     "ml", "milliliter", "milliliters", "millilitre", "millilitres",
     "l", "liter", "liters", "litre", "litres", "cup", "cups",
     "oz", "ounce", "ounces", "lb", "lbs", "pound", "pounds",
     "clove", "cloves", "can", "cans", "tin", "tins", "packet", "packets"}

UNIT_ALIASES ==
    [a \in AliasNames |->
        CASE a \in {"tsp", "teaspoon", "teaspoons"} -> "tsp"
          [] a \in {"tbsp", "tablespoon", "tablespoons"} -> "tbsp"
          [] a \in {"g", "gram", "grams"} -> "g"
          [] a \in {"kg", "kilogram", "kilograms"} -> "kg"
          [] a \in {"ml", "milliliter", "milliliters", "millilitre", "millilitres"} -> "ml"
          [] a \in {"l", "liter", "liters", "litre", "litres"} -> "l"
          [] a \in {"cup", "cups"} -> "cup"
          [] a \in {"oz", "ounce", "ounces"} -> "oz"
          [] a \in {"lb", "lbs", "pound", "pounds"} -> "lb"
          [] a \in {"clove", "cloves"} -> "clove"
          [] a \in {"can", "cans", "tin", "tins"} -> "can"
          [] a \in {"packet", "packets"} -> "packet"]

\* the absent unit (Python's None in ShoppingItem.unit)
NoUnit == "None"

\* _normalize_unit
NormalizeUnit(token) ==
    The({IF cleaned \in AliasNames THEN UNIT_ALIASES[cleaned] ELSE NoUnit
         : cleaned \in {RStripChars(Lower(Strip(token)), {".", ","})}})

NamePunct == {" ", ",", ".", ";", ":"}

\* _normalize_name
NormalizeName(text) ==
    Strip(SpaceSub(StripChars(ParensSub(Lower(Strip(text))), NamePunct)))

\* _display_name
DisplayName(text) ==
    Strip(SpaceSub(StripChars(ParensSub(text), NamePunct)))

(***************************************************************************)
(* _parse_quantity                                                         *)
(***************************************************************************)
MaxDenominator == 16

\* an exception that _parse_quantity lets through, in the place of its value
Raises(exception) == <<exception>>
IsRaised(q) == Len(q) = 1

\* a faulty version that reads a zero denominator as the quantity zero
ParseSimpleQuantityZero(text) ==
    IF Contains(text, "/")
    THEN The({IF IsInt(t[1]) /\ IsInt(t[2])
              THEN IF IntOf(t[2]) = 0 THEN <<0, 1>> ELSE Fraction(IntOf(t[1]), IntOf(t[2]))
              ELSE None
              : t \in {<<Before(text, "/"), After(text, "/")>>}})
    ELSE IF IsDecimal(text) THEN LimitDenominator(DecimalOf(text), MaxDenominator)
    ELSE None

\* a faulty version that rounds fractions as it rounds decimals
ParseSimpleQuantityRounded(text) ==
    IF Contains(text, "/")
    THEN The({IF IsInt(t[1]) /\ IsInt(t[2]) /\ IntOf(t[2]) # 0
              THEN LimitDenominator(Fraction(IntOf(t[1]), IntOf(t[2])), MaxDenominator)
              ELSE None
              : t \in {<<Before(text, "/"), After(text, "/")>>}})
    ELSE IF IsDecimal(text) THEN LimitDenominator(DecimalOf(text), MaxDenominator)
    ELSE IF SpecialDecimal(text) # "" THEN Raises(SpecialDecimal(text))
    ELSE None

\* lines 198-209: the branches of _parse_quantity for text that is not split
\* at a blank
ParseSimpleQuantity(text) ==
    IF Contains(text, "/")
    THEN The({IF IsInt(t[1]) /\ IsInt(t[2]) /\ IntOf(t[2]) # 0
              THEN Fraction(IntOf(t[1]), IntOf(t[2]))
              ELSE None
              : t \in {<<Before(text, "/"), After(text, "/")>>}})
    ELSE IF IsDecimal(text) THEN LimitDenominator(DecimalOf(text), MaxDenominator)
    ELSE IF SpecialDecimal(text) # "" THEN Raises(SpecialDecimal(text))
    ELSE None

\* _parse_quantity
RECURSIVE ParseQuantity(_)
ParseQuantity(raw) ==
    The({IF text = "" THEN None
         ELSE IF Contains(text, " ") /\ Contains(text, "/")
         THEN The({IF IsRaised(whole) THEN whole
                   ELSE The({IF IsRaised(frac) THEN frac
                             ELSE IF whole = None \/ frac = None THEN None
                             ELSE FracAdd(whole, frac)
                             : frac \in {ParseQuantity(After(text, " "))}})
                   : whole \in {ParseQuantity(Before(text, " "))}})
         ELSE ParseSimpleQuantity(text)
         : text \in {Strip(raw)}})

(***************************************************************************)
(* _parse_ingredient_line                                                  *)
(***************************************************************************)
ShoppingItem(quantity, unit, name, key, source_path, line_number) ==
    [quantity |-> quantity, unit |-> unit, name |-> name, key |-> key,
     source_path |-> source_path, line_number |-> line_number]

\* a raised ShoppingParseError: what its message says
ShoppingParseError(kind, source_path, line_number, text) ==
    [kind |-> kind, source_path |-> source_path, line_number |-> line_number,
     text |-> text]

NoError == ShoppingParseError("", "", 0, "")

\* a faulty split that attaches a known unit even when nothing follows it
SplitUnitAnyTail(rest) ==
    The({IF NormalizeUnit(t[1]) # NoUnit
         THEN <<NormalizeUnit(t[1]), t[2]>>
         ELSE <<NoUnit, rest>>
         : t \in {<<Before(rest, " "), Strip(After(rest, " "))>>}})

\* lines 111-118: <<unit, name>> for the stripped, non-empty group rest
SplitUnit(rest) ==
    The({IF NormalizeUnit(t[1]) # NoUnit /\ t[2] # ""
         THEN <<NormalizeUnit(t[1]), t[2]>>
         ELSE <<NoUnit, rest>>
         : t \in {<<Before(rest, " "), Strip(After(rest, " "))>>}})

\* lines 103-118: the <<qty, unit, name>> split of the stripped text
SplitIngredient(text) ==
    The({IF e = 0 THEN <<None, NoUnit, text>>
         ELSE The({IF rest = "" THEN <<ParseQuantity(QuantityGroup(text, e)), NoUnit, text>>
                   ELSE <<ParseQuantity(QuantityGroup(text, e))>> \o SplitUnit(rest)
                   : rest \in {Strip(RestGroup(text, e))}})
         : e \in {QuantityEnd(text)}})

\* a faulty version of lines 120-132 that never checks the name
MakeItemUnchecked(parts, text, source_path, line_number) ==
    [raised |-> FALSE,
     error |-> NoError,
     item |-> ShoppingItem(parts[1], parts[2], DisplayName(parts[3]),
                           NormalizeName(parts[3]), source_path, line_number)]

\* lines 120-132: the item made from the split, or the error raised
MakeItem(parts, text, source_path, line_number) ==
    The({IF name_key = ""
         THEN [raised |-> TRUE,
               error |-> ShoppingParseError("has no parseable ingredient name",
                                            source_path, line_number, text),
               item |-> ShoppingItem(None, NoUnit, "", "", source_path, line_number)]
         ELSE [raised |-> FALSE,
               error |-> NoError,
               item |-> ShoppingItem(parts[1], parts[2], DisplayName(parts[3]),
                                     name_key, source_path, line_number)]
         : name_key \in {NormalizeName(parts[3])}})

\* a faulty parser that rejects a numeric prefix without a value
ParseIngredientLineStrict(line, source_path, line_number) ==
    The({IF text = ""
         THEN [raised |-> TRUE,
               error |-> ShoppingParseError("is empty", source_path, line_number, ""),
               item |-> ShoppingItem(None, NoUnit, "", "", source_path, line_number)]
         ELSE The({IF QuantityEnd(text) # 0 /\ parts[1] = None
                   THEN [raised |-> TRUE,
                         error |-> ShoppingParseError("has no parseable quantity",
                                                      source_path, line_number, text),
                         item |-> ShoppingItem(None, NoUnit, "", "", source_path,
                                               line_number)]
                   ELSE MakeItem(parts, text, source_path, line_number)
                   : parts \in {SplitIngredient(text)}})
         : text \in {Strip(line)}})

\* the result of _parse_ingredient_line: an item, or the error it raises
ParseIngredientLine(line, source_path, line_number) ==
    The({IF text = ""
         THEN [raised |-> TRUE,
               error |-> ShoppingParseError("is empty", source_path, line_number, ""),
               item |-> ShoppingItem(None, NoUnit, "", "", source_path, line_number)]
         ELSE The({MakeItem(parts, text, source_path, line_number)
                   : parts \in {SplitIngredient(text)}})
         : text \in {Strip(line)}})

(***************************************************************************)
(* _format_quantity, _format_item, _shopping_line_key                      *)
(***************************************************************************)
\* a faulty formatter that never splits the whole part off
FormatQuantityImproper(quantity) ==
    IF quantity[2] = 1 THEN ToString(quantity[1])
    ELSE ToString(quantity[1]) \o "/" \o ToString(quantity[2])

\* _format_quantity
FormatQuantity(quantity) ==
    The({The({IF q[2] = 1 THEN ToString(q[1])
              ELSE IF whole = 0
              THEN ToString(r[1]) \o "/" \o ToString(r[2])
              ELSE ToString(whole) \o " " \o ToString(r[1]) \o "/" \o ToString(r[2])
              : r \in {Fraction(q[1] - whole * q[2], q[2])}})
         : q \in {quantity}, whole \in {quantity[1] \div quantity[2]}})

\* a faulty formatter that leaves the unit out
FormatItemNoUnit(item) ==
    IF item.quantity = None THEN item.name
    ELSE FormatQuantity(item.quantity) \o " " \o item.name

\* _format_item
FormatItem(item) ==
    IF item.quantity = None THEN item.name
    ELSE IF item.unit # NoUnit
    THEN FormatQuantity(item.quantity) \o " " \o item.unit \o " " \o item.name
    ELSE FormatQuantity(item.quantity) \o " " \o item.name

\* lines 245-251: the key of the group rest of a line that matches
RestKey(rest, text) ==
    IF rest = "" THEN NormalizeName(text)
    ELSE The({IF NormalizeUnit(t[1]) # NoUnit /\ t[2] # ""
              THEN NormalizeName(t[2])
              ELSE NormalizeName(rest)
              : t \in {<<Before(rest, " "), Strip(After(rest, " "))>>}})

\* _shopping_line_key
ShoppingLineKey(line) ==
    The({IF text = "" THEN ""
         ELSE The({IF e = 0 THEN NormalizeName(text)
                   ELSE The({RestKey(rest, text) : rest \in {Strip(RestGroup(text, e))}})
                   : e \in {QuantityEnd(text)}})
         : text \in {Strip(line)}})

(***************************************************************************)
(* _aggregate_items                                                        *)
(***************************************************************************)
\* item.unit or ""
UnitOrEmpty(item) == IF item.unit = NoUnit THEN "" ELSE item.unit

\* a faulty dict key that leaves the unit out
BucketWithoutUnit(item) == <<item.key, "", item.quantity = None>>

\* the dict key of line 138
Bucket(item) == <<item.key, UnitOrEmpty(item), item.quantity = None>>

\* a faulty merge that keeps the last quantity of a bucket instead of the sum
MergeItemOverwrite(merged, item) ==
    The({IF found = {} THEN Append(merged, item)
         ELSE The({[merged EXCEPT ![k].quantity = item.quantity] : k \in found})
         : found \in {{j \in 1..Len(merged) : Bucket(merged[j]) = Bucket(item)}}})

\* a faulty merge that counts quantity-less duplicates as new entries
MergeItemCounting(merged, item) ==
    The({IF found = {} THEN Append(merged, item)
         ELSE The({IF merged[k].quantity # None /\ item.quantity # None
                   THEN [merged EXCEPT ![k].quantity = FracAdd(@, item.quantity)]
                   ELSE Append(merged, item)
                   : k \in found})
         : found \in {{j \in 1..Len(merged) : Bucket(merged[j]) = Bucket(item)}}})

\* a faulty merge that keeps the first quantity of a bucket and adds nothing
MergeItemKeepFirst(merged, item) ==
    IF \E j \in 1..Len(merged) : Bucket(merged[j]) = Bucket(item)
    THEN merged ELSE Append(merged, item)

\* a faulty merge that lets the last item of a bucket fix the name shown
MergeItemLastName(merged, item) ==
    The({IF found = {} THEN Append(merged, item)
         ELSE The({IF merged[k].quantity # None /\ item.quantity # None
                   THEN [merged EXCEPT ![k].quantity = FracAdd(@, item.quantity),
                                       ![k].name = item.name]
                   ELSE [merged EXCEPT ![k].name = item.name]
                   : k \in found})
         : found \in {{j \in 1..Len(merged) : Bucket(merged[j]) = Bucket(item)}}})

\* one pass of the loop of lines 137-153; merged is the dict's values in
\* insertion order
MergeItem(merged, item) ==
    The({IF found = {} THEN Append(merged, item)
         ELSE The({IF merged[k].quantity # None /\ item.quantity # None
                   THEN [merged EXCEPT ![k].quantity = FracAdd(@, item.quantity)]
                   ELSE merged
                   : k \in found})
         : found \in {{j \in 1..Len(merged) : Bucket(merged[j]) = Bucket(item)}}})

\* the loop of lines 137-153 over all items
MergeAll(items) ==
    LET dict[n \in 0..Len(items)] ==
            IF n = 0 THEN <<>>
            ELSE The({MergeItem(m, items[n]) : m \in {dict[n - 1]}})
    IN  dict[Len(items)]

\* The objects of the loop of lines 137-153.  heap holds the input items at
\* 1..Len(items), followed by the ShoppingItem objects the loop constructs;
\* entries are the dict's values, as indices into heap.
\* a faulty store that puts the input item itself into the dict
StoreAlias(st, i) == [heap |-> st.heap, entries |-> Append(st.entries, i)]

\* lines 140-148: a new ShoppingItem with the fields of item i is stored
StoreCopy(st, i) ==
    [heap |-> Append(st.heap, st.heap[i]), entries |-> Append(st.entries, Len(st.heap) + 1)]

\* one pass of the loop on item i; line 153 assigns to the stored object
MergeObject(st, i) ==
    The({IF found = {} THEN StoreCopy(st, i)
         ELSE The({IF st.heap[e].quantity # None /\ st.heap[i].quantity # None
                   THEN [st EXCEPT !.heap[e].quantity = FracAdd(@, st.heap[i].quantity)]
                   ELSE st
                   : e \in {st.entries[k] : k \in found}})
         : found \in {{k \in 1..Len(st.entries) :
                         Bucket(st.heap[st.entries[k]]) = Bucket(st.heap[i])}}})

MergeObjects(items) ==
    LET loop[n \in 0..Len(items)] ==
            IF n = 0 THEN [heap |-> items, entries |-> <<>>]
            ELSE The({MergeObject(st, n) : st \in {loop[n - 1]}})
    IN  loop[Len(items)]

\* the input list after the loop
ItemsAfterMerge(items) == SubSeq(MergeObjects(items).heap, 1, Len(items))

\* the sort key of line 158 and Python's tuple comparison on it
SortKey(item) == <<item.key, UnitOrEmpty(item), Lower(item.name)>>

TupleLess(a, b) ==
    \/ StrLess(a[1], b[1])
    \/ a[1] = b[1] /\ StrLess(a[2], b[2])
    \/ a[1] = b[1] /\ a[2] = b[2] /\ StrLess(a[3], b[3])

\* insert x behind every element that does not sort after it (sorted() is
\* stable): the number of elements that stay before x
InsertSorted(seq, x) ==
    The({SubSeq(seq, 1, n) \o <<x>> \o SubSeq(seq, n + 1, Len(seq))
         : n \in {Cardinality({j \in 1..Len(seq) :
                                 ~TupleLess(SortKey(x), SortKey(seq[j]))})}})

\* a faulty version that returns the buckets in insertion order
InsertionOrder(seq) == seq

\* sorted(merged.values(), key=...)
SortItems(seq) ==
    LET srt[n \in 0..Len(seq)] ==
            IF n = 0 THEN <<>>
            ELSE The({InsertSorted(done, seq[n]) : done \in {srt[n - 1]}})
    IN  srt[Len(seq)]

FormatAll(seq) == [k \in 1..Len(seq) |-> FormatItem(seq[k])]

\* _aggregate_items: the dict, the sorted buckets and the returned lines
AggregateItems(items) ==
    The({The({[merged |-> m, sorted_items |-> srt, lines |-> FormatAll(srt)]
              : srt \in {SortItems(m)}})
         : m \in {MergeAll(items)}})

(***************************************************************************)
(* _assert_item_representation                                             *)
(***************************************************************************)
OutputKeys(lines) == {ShoppingLineKey(lines[k]) : k \in 1..Len(lines)}

Unrepresented(items, lines) ==
    The({{i \in 1..Len(items) : items[i].key \notin output_keys}
         : output_keys \in {OutputKeys(lines)}})

\* a faulty check that reports the last item without a line, not the first
AssertItemRepresentationLast(items, lines) ==
    The({IF missing = {} THEN NoError
         ELSE The({ShoppingParseError("not represented in shopping list",
                                      items[i].source_path, items[i].line_number,
                                      items[i].name)
                   : i \in {j \in missing : \A h \in missing : j >= h}})
         : missing \in {Unrepresented(items, lines)}})

\* the error _assert_item_representation raises, NoError when it returns
AssertItemRepresentation(items, lines) ==
    The({IF missing = {} THEN NoError
         ELSE The({ShoppingParseError("not represented in shopping list",
                                      items[i].source_path, items[i].line_number,
                                      items[i].name)
                   : i \in {j \in missing : \A h \in missing : j <= h}})
         : missing \in {Unrepresented(items, lines)}})

(***************************************************************************)
(* The inputs: lines of Ingredients sections.                              *)
(***************************************************************************)
\* lines of the sections handed to build_shopping_list
BuildLines ==
    {"- 1 tbsp olive oil", "- 2 tablespoons Olive Oil", "- 1/2 cup sugar",
     "- 1/3 cup sugar", "- 100 g sugar", "- 2 sugar", "- Sugar",
     "- 1/0 cup sugar", "- 1 (heaped) 1/2 sugar", "- (garnish)", "not-a-bullet", ""}

\* bullet contents built from a numeric prefix, a unit word and a name
QuantityTexts == {"", "2", "1/2", "1/0", "1 1/2", "1.5", "2g"}
UnitTexts == {"", "tbsp", "Cups.", "handful"}
NameTexts == {"", "spinach", "salt, to taste.", "(garnish)", "butter (80 g pastry)"}

Join(a, b) == IF a = "" THEN b ELSE IF b = "" THEN a ELSE a \o " " \o b

\* contents handed to _parse_ingredient_line alone
ContentTexts ==
    {Join(q, Join(u, n)) : q \in QuantityTexts, u \in UnitTexts, n \in NameTexts}
        \cup {"  ", " 2 cloves ", "1/0 cup sugar", "2 (garnish) (chopped)", "( )",
              "sugar,\t.", "2 cup sugar.\t."}

\* the source identifier of the n-th recipe document
SourcePath(n) == "Recipes/R" \o ToString(n) \o ".md"

(***************************************************************************)
(* State.                                                                  *)
(***************************************************************************)
VARIABLES
    docs,          \* the recipe sections read so far: [source_path, lines]
    items,         \* build_shopping_list's items
    merged,        \* _aggregate_items' dict values, in insertion order
    sorted_items,  \* _aggregate_items' sorted_items
    lines,         \* the list build_shopping_list is about to return
    error,         \* the ShoppingParseError raised, NoError if none
    pc,            \* where the build stands
    call,          \* the arguments of a call made from outside build_shopping_list
    result         \* what that call did so far: what it returned, raised or wrote

vars == <<docs, items, merged, sorted_items, lines, error, pc, call, result>>

NoCall == [line |-> "", source_path |-> "", line_number |-> 0]
NoResult == [outcome |-> "none"]

Init ==
    /\ docs = <<>>
    /\ items = <<>>
    /\ merged = <<>>
    /\ sorted_items = <<>>
    /\ lines = <<>>
    /\ error = NoError
    /\ pc = "documents"
    /\ call = NoCall
    /\ result = NoResult

\* the section being read and the index of the next line (enumerate's idx)
Current == docs[Len(docs)]
\* a faulty index that counts the lines from 0
ZeroBasedIdx == Len(Current.lines)
NextIdx == Len(Current.lines) + 1

\* extract_sections strips the section text: a section neither starts nor
\* ends with white space
CanStart(line) == Strip(line) # "" /\ ~IsSpace(Ch(line, 1))
CanEnd(line) == Strip(line) # "" /\ ~IsSpace(Ch(line, Len(line)))

\* build_shopping_list line 72: the loop takes the next recipe document
StartDocument ==
    /\ pc = "documents"
    /\ Len(docs) < MaxDocs
    /\ docs' = Append(docs, [source_path |-> SourcePath(Len(docs) + 1), lines |-> <<>>])
    /\ pc' = "extract"
    /\ UNCHANGED <<items, merged, sorted_items, lines, error, call, result>>

\* _extract_ingredient_items lines 84-94: one pass of the loop, on a line
\* drawn from pool
ReadLine(pool) ==
    /\ pc = "extract"
    /\ NextIdx <= MaxLines
    /\ Len(items) < MaxItems
    /\ \E line \in pool :
        /\ NextIdx = 1 => CanStart(line)
        /\ docs' = [docs EXCEPT ![Len(docs)].lines = Append(@, line)]
        /\ IF ~BulletMatches(line)
           THEN IF Strip(line) # ""
                THEN /\ error' = ShoppingParseError("is not a bullet", Current.source_path,
                                                    NextIdx, Strip(line))
                     /\ pc' = "raised"
                     /\ UNCHANGED items
                ELSE UNCHANGED <<items, error, pc>>
           ELSE \E parsed \in {ParseIngredientLine(BulletGroup(line), Current.source_path,
                                                     NextIdx)} :
                    IF parsed.raised
                    THEN /\ error' = parsed.error
                         /\ pc' = "raised"
                         /\ UNCHANGED items
                    ELSE /\ items' = Append(items, parsed.item)
                         /\ UNCHANGED <<error, pc>>
    /\ UNCHANGED <<merged, sorted_items, lines, call, result>>

\* _extract_ingredient_items line 95 and build_shopping_list line 73: the
\* section is exhausted and its items are in items
EndDocument ==
    /\ pc = "extract"
    /\ Current.lines # <<>> => CanEnd(Current.lines[Len(Current.lines)])
    /\ pc' = "documents"
    /\ UNCHANGED <<docs, items, merged, sorted_items, lines, error, call, result>>

\* build_shopping_list line 74
Aggregate ==
    /\ pc = "documents"
    /\ \E aggregate \in {AggregateItems(items)} :
           /\ merged' = aggregate.merged
           /\ sorted_items' = aggregate.sorted_items
           /\ lines' = aggregate.lines
    /\ items' = ItemsAfterMerge(items)
    /\ pc' = "aggregated"
    /\ UNCHANGED <<docs, error, call, result>>

\* a faulty ending that hands the lines back whatever the check found
ReturnAnyway ==
    /\ pc = "aggregated"
    /\ error' = AssertItemRepresentation(items, lines)
    /\ pc' = "returned"
    /\ UNCHANGED <<docs, items, merged, sorted_items, lines, call, result>>

\* build_shopping_list lines 75-76
AssertAndReturn ==
    /\ pc = "aggregated"
    /\ \E raised \in {AssertItemRepresentation(items, lines)} :
           /\ error' = raised
           /\ pc' = IF raised = NoError THEN "returned" ELSE "raised"
    /\ UNCHANGED <<docs, items, merged, sorted_items, lines, call, result>>

ReadBuildLine == ReadLine(BuildLines)

Next ==
    \/ StartDocument
    \/ ReadBuildLine
    \/ EndDocument
    \/ Aggregate
    \/ AssertAndReturn

Spec == Init /\ [][Next]_vars

\* build_shopping_list on sections whose lines can be read in two ways once
\* they are formatted
AmbiguousLines ==
    {"- (x) 2 sugar", "- 2 sugar", "- 1 (x) 2 sugar", "- 1/0 cup sugar", "- 1/0 g sugar",
     "- Sugar"}

ReadAmbiguousLine == ReadLine(AmbiguousLines)

NextAmbiguous ==
    \/ StartDocument
    \/ ReadAmbiguousLine
    \/ EndDocument
    \/ Aggregate
    \/ AssertAndReturn

SpecAmbiguous == Init /\ [][NextAmbiguous]_vars

\* _parse_ingredient_line called alone, on any content, source and number
ParseLine ==
    \E line \in ContentTexts, n \in 1..MaxLines, d \in 1..MaxDocs :
        /\ call = NoCall
        /\ call' = [line |-> line, source_path |-> SourcePath(d), line_number |-> n]
        /\ \E parsed \in {ParseIngredientLine(line, SourcePath(d), n)} :
               result' = IF parsed.raised
                         THEN [outcome |-> "raised", error |-> parsed.error]
                         ELSE [outcome |-> "returned", item |-> parsed.item]
        /\ UNCHANGED <<docs, items, merged, sorted_items, lines, error, pc>>

NextParse == ParseLine

SpecParse == Init /\ [][NextParse]_vars

\* the items and the lines handed to _assert_item_representation alone:
\* items parsed from any texts, and any part of the lines aggregated from them
CheckTexts == {"100 g sugar", "1/2 cup sugar", "2 sugar", "Sugar", "1 tbsp olive oil"}

KeepLines(seq, keep) ==
    LET kept[n \in 0..Len(seq)] ==
            IF n = 0 THEN <<>>
            ELSE IF n \in keep THEN Append(kept[n - 1], seq[n]) ELSE kept[n - 1]
    IN  kept[Len(seq)]

CheckLines ==
    /\ pc = "documents"
    /\ items = <<>>
    /\ \E n \in 1..MaxItems :
           \E texts \in [1..n -> CheckTexts] :
               \E its \in {[i \in 1..n |->
                               ParseIngredientLine(texts[i], SourcePath(1), i).item]} :
                   \E aggregate \in {AggregateItems(its)} :
                       \E keep \in SUBSET (1..Len(aggregate.lines)) :
                           \E kept \in {KeepLines(aggregate.lines, keep)} :
                               \E raised \in {AssertItemRepresentation(its, kept)} :
                                   /\ items' = its
                                   /\ merged' = aggregate.merged
                                   /\ sorted_items' = aggregate.sorted_items
                                   /\ lines' = kept
                                   /\ error' = raised
                                   /\ pc' = IF raised = NoError THEN "returned"
                                                                ELSE "raised"
    /\ UNCHANGED <<docs, call, result>>

\* the texts handed to _parse_quantity alone
IntegerTexts == {"0", "1", "2", "3", "7", "12", "100"}
Numerators == {"0", "1", "3", "5", "10", "x", "1.5", ""}
Denominators == {"0", "1", "2", "3", "4", "16", "x", "2.0"}
Wholes == {"1", "2", "10"}
DecimalTexts ==
    {"1.5", "0.5", "0.25", "0.125", "0.0625", "0.75", "2.5", "0.4375", "12.75", "0.33",
     "0.1", "0.2", "0.3", "0.03", "0.97", "0.99", "3.14", "2.71", "0.45", "1.07"}
OtherTexts ==
    {"", "  ", "abc", "x 1/2", "1.5.2", "1e2", "25e-1", "-1.5", "+2", ".5", "5.", "NaN",
     "nan", "inf", "-Infinity", "sNaN", "NaN 1/2", "1/2 NaN", " 1 1/2 ", "1.5 1/2"}
QuantityCallTexts ==
    IntegerTexts \cup DecimalTexts \cup OtherTexts
        \cup {n \o "/" \o d : n \in Numerators, d \in Denominators}
        \cup {w \o " " \o n \o "/" \o d : w \in Wholes, n \in Numerators, d \in Denominators}

\* _parse_quantity called alone, on any text
ParseQuantityText ==
    /\ call = NoCall
    /\ \E text \in QuantityCallTexts :
           /\ call' = [text |-> text]
           /\ \E q \in {ParseQuantity(text)} :
                  result' = IF IsRaised(q)
                            THEN [outcome |-> "raised", exception |-> q[1]]
                            ELSE [outcome |-> "returned", quantity |-> q]
    /\ UNCHANGED <<docs, items, merged, sorted_items, lines, error, pc>>

NextQuantity == ParseQuantityText

SpecQuantity == Init /\ [][NextQuantity]_vars

\* _format_quantity called alone, on any non-negative Fraction
FormatQuantityCall ==
    /\ call = NoCall
    /\ \E n \in 0..MaxNumerator, d \in 1..MaxDivisor :
           \E quantity \in {Fraction(n, d)} :
               /\ call' = [quantity |-> quantity]
               /\ result' = [outcome |-> "returned", text |-> FormatQuantity(quantity)]
    /\ UNCHANGED <<docs, items, merged, sorted_items, lines, error, pc>>

NextFormat == FormatQuantityCall

SpecFormat == Init /\ [][NextFormat]_vars

(***************************************************************************)
(* build_cookbook (services/build_service.py), around build_shopping_list. *)
(***************************************************************************)
\* lines of the Ingredients sections of the recipes a cookbook embeds
CookbookLines == {"- 2 sugar", "- Sugar", "- 1 (heaped) 1/2 sugar", "not-a-bullet"}

\* the include_intro_page entry of the cookbook's metadata
MetaValues == {"absent", "false", "true"}

\* where build_cookbook stands and what it did to the file system
Progress(stage, raised) ==
    [outcome |-> stage, raised |-> raised, shopping_items |-> <<>>,
     baked_written |-> FALSE, compiler_run |-> FALSE, output_copied |-> FALSE]

InShoppingList == call # NoCall /\ result.outcome = "shopping"

\* lines 41-61: the format check, the cookbook and its recipes are read (the
\* recipe sections are taken up by StartDocument) and the metadata parsed
StartBuildCookbook ==
    /\ call = NoCall
    /\ pc = "documents"
    /\ docs = <<>>
    /\ \E output_format \in {"pdf", "web", "docx"}, found \in BOOLEAN, dry_run \in BOOLEAN,
          include_intro_page \in MetaValues, output_in_cwd \in BOOLEAN :
           /\ call' = [output_format |-> output_format, cookbook_found |-> found,
                       dry_run |-> dry_run, include_intro_page |-> include_intro_page,
                       output_in_cwd |-> output_in_cwd]
           /\ result' = IF output_format \notin {"pdf", "web"}
                         THEN Progress("raised", "ConfigError")
                         ELSE IF ~found THEN Progress("raised", "MissingFileError")
                         ELSE Progress("meta", "")
    /\ UNCHANGED <<docs, items, merged, sorted_items, lines, error, pc>>

\* line 62, include_intro_page true: build_shopping_list is called
CallShoppingList ==
    /\ call # NoCall
    /\ result.outcome = "meta"
    /\ call.include_intro_page = "true"
    /\ result' = [result EXCEPT !.outcome = "shopping"]
    /\ UNCHANGED <<docs, items, merged, sorted_items, lines, error, pc, call>>

\* line 62, include_intro_page absent or false
SkipShoppingList ==
    /\ call # NoCall
    /\ result.outcome = "meta"
    /\ call.include_intro_page # "true"
    /\ result' = [result EXCEPT !.outcome = "bake"]
    /\ UNCHANGED <<docs, items, merged, sorted_items, lines, error, pc, call>>

\* line 63: the steps of build_shopping_list
ShoppingStartDocument == InShoppingList /\ StartDocument
ShoppingReadLine == InShoppingList /\ ReadLine(CookbookLines)
ShoppingEndDocument == InShoppingList /\ EndDocument
ShoppingAggregate == InShoppingList /\ Aggregate
ShoppingAssertAndReturn == InShoppingList /\ AssertAndReturn

\* lines 63-64: build_shopping_list returned its lines
ShoppingReturns ==
    /\ InShoppingList
    /\ pc = "returned"
    /\ result' = [result EXCEPT !.outcome = "bake", !.shopping_items = lines]
    /\ UNCHANGED <<docs, items, merged, sorted_items, lines, error, pc, call>>

\* a faulty build that catches the error and goes on without a shopping list
ShoppingRaisesCaught ==
    /\ InShoppingList
    /\ pc = "raised"
    /\ result' = [result EXCEPT !.outcome = "bake"]
    /\ UNCHANGED <<docs, items, merged, sorted_items, lines, error, pc, call>>

\* line 63: build_shopping_list raised; nothing catches the error
ShoppingRaises ==
    /\ InShoppingList
    /\ pc = "raised"
    /\ result' = [result EXCEPT !.outcome = "raised", !.raised = "ShoppingParseError"]
    /\ UNCHANGED <<docs, items, merged, sorted_items, lines, error, pc, call>>

\* lines 65-74 and 90: the baked markdown is written; a dry run returns
WriteBaked ==
    /\ call # NoCall
    /\ result.outcome = "bake"
    /\ result' = [result EXCEPT !.baked_written = TRUE,
                                !.outcome = IF call.dry_run THEN "returned" ELSE "written"]
    /\ UNCHANGED <<docs, items, merged, sorted_items, lines, error, pc, call>>

\* lines 75-86: the document compiler runs
RunPandoc ==
    /\ call # NoCall
    /\ result.outcome = "written"
    /\ result' = [result EXCEPT !.compiler_run = TRUE, !.outcome = "compiled"]
    /\ UNCHANGED <<docs, items, merged, sorted_items, lines, error, pc, call>>

\* lines 87-90: the output is copied unless it already is where it belongs
CopyOutput ==
    /\ call # NoCall
    /\ result.outcome = "compiled"
    /\ result' = [result EXCEPT !.output_copied = ~call.output_in_cwd,
                                !.outcome = "returned"]
    /\ UNCHANGED <<docs, items, merged, sorted_items, lines, error, pc, call>>

NextBuild ==
    \/ StartBuildCookbook
    \/ CallShoppingList
    \/ SkipShoppingList
    \/ ShoppingStartDocument
    \/ ShoppingReadLine
    \/ ShoppingEndDocument
    \/ ShoppingAggregate
    \/ ShoppingAssertAndReturn
    \/ ShoppingReturns
    \/ ShoppingRaises
    \/ WriteBaked
    \/ RunPandoc
    \/ CopyOutput

SpecBuild == Init /\ [][NextBuild]_vars

NextCheck == CheckLines

SpecCheck == Init /\ [][NextCheck]_vars

(***************************************************************************)
(* Vocabulary of the properties.                                           *)
(***************************************************************************)
\* the bucket of an item: (aggregation key, unit or empty, quantity absent)
BucketOf(it) == <<it.key, IF it.unit = NoUnit THEN "" ELSE it.unit, it.quantity = None>>

\* the sum, as an unreduced pair <<n, d>>, of the quantities of the items of
\* seq that satisfy Sel and carry a quantity
SumWhere(seq, Sel(_)) ==
    LET sum[i \in 0..Len(seq)] ==
            IF i = 0 THEN <<0, 1>>
            ELSE IF Sel(seq[i]) /\ seq[i].quantity # None
            THEN <<sum[i - 1][1] * seq[i].quantity[2] + seq[i].quantity[1] * sum[i - 1][2],
                   sum[i - 1][2] * seq[i].quantity[2]>>
            ELSE sum[i - 1]
    IN  sum[Len(seq)]

\* a reduced fraction q has the value of the pair t
SameValue(q, t) ==
    /\ q # None
    /\ q[1] * t[2] = t[1] * q[2]
    /\ q[2] > 0
    /\ \A g \in 2..q[2] : ~(q[1] % g = 0 /\ q[2] % g = 0)

\* the first item of seq in bucket b
FirstIn(seq, b) ==
    seq[CHOOSE i \in 1..Len(seq) :
            /\ BucketOf(seq[i]) = b
            /\ \A j \in 1..(i - 1) : BucketOf(seq[j]) # b]

\* the positions of the lines that render bucket b
LinesOf(b) == {k \in 1..Len(sorted_items) : BucketOf(sorted_items[k]) = b}

\* the items of the d-th recipe document, and of the documents in the order
\* given by the sequence of document numbers
ItemsOfDoc(d) ==
    LET InDoc(it) == it.source_path = docs[d].source_path
    IN  SelectSeq(items, InDoc)

ItemsInOrder(order) ==
    LET cat[n \in 0..Len(order)] ==
            IF n = 0 THEN <<>> ELSE cat[n - 1] \o ItemsOfDoc(order[n])
    IN  cat[Len(order)]

\* the documents 1..n with documents i and j swapped
Swapped(n, i, j) == [d \in 1..n |-> IF d = i THEN j ELSE IF d = j THEN i ELSE d]

\* what a list of buckets says: each bucket with its quantity
BucketSums(seq) == {<<BucketOf(seq[k]), seq[k].quantity>> : k \in 1..Len(seq)}
BucketSeq(seq) == [k \in 1..Len(seq) |-> BucketOf(seq[k])]

(***************************************************************************)
(* C1.  For every bucket whose items carry quantities the aggregator       *)
(* emits one line, and the quantity of that line is the exact rational sum *)
(* of the quantities of all items of the bucket; unit spellings that       *)
(* normalize to the same canonical unit fall in the same bucket            *)
(* ("1 tbsp olive oil" + "2 tablespoons olive oil" gives "3 tbsp olive     *)
(* oil").                                                                  *)
(***************************************************************************)
C1_ExactBucketSum ==
    pc = "aggregated" =>
        \A i \in 1..Len(items) :
            items[i].quantity # None =>
                LET b == BucketOf(items[i])
                    InBucket(it) == BucketOf(it) = b
                    total == SumWhere(items, InBucket)
                    first == FirstIn(items, b)
                IN  /\ Cardinality(LinesOf(b)) = 1
                    /\ \A k \in LinesOf(b) :
                        /\ SameValue(sorted_items[k].quantity, total)
                        /\ lines[k] = FormatQuantity(sorted_items[k].quantity) \o " "
                              \o (IF b[2] = "" THEN "" ELSE b[2] \o " ") \o first.name

C1_Witness ==
    /\ pc = "aggregated"
    /\ Len(docs) = 2
    /\ docs[1].lines = <<"- 1 tbsp olive oil", "- 1/2 cup sugar">>
    /\ docs[2].lines = <<"- 2 tablespoons Olive Oil", "- 1/3 cup sugar">>
    /\ lines = <<"3 tbsp olive oil", "5/6 cup sugar">>

(***************************************************************************)
(* C2.  Unit isolation: items with the same aggregation key and different  *)
(* canonical units (or one with a unit and one without) are never merged.  *)
(* Every (key, unit) combination that occurs among the items has a line of *)
(* its own, and the quantity of a line is the sum of the quantities of the *)
(* items with the key and the unit of that line, and of no other item.     *)
(***************************************************************************)
C2_UnitIsolation ==
    pc = "aggregated" =>
        /\ \A i \in 1..Len(items) :
               \E k \in 1..Len(sorted_items) : BucketOf(sorted_items[k]) = BucketOf(items[i])
        /\ \A k \in 1..Len(sorted_items) :
               LET b == BucketOf(sorted_items[k])
                   SameKeyAndUnit(it) == BucketOf(it)[1] = b[1] /\ BucketOf(it)[2] = b[2]
               IN  /\ \E i \in 1..Len(items) : BucketOf(items[i]) = b
                   /\ sorted_items[k].quantity # None =>
                          SameValue(sorted_items[k].quantity,
                                    SumWhere(items, SameKeyAndUnit))
        /\ \A i, j \in 1..Len(items) :
               (items[i].key = items[j].key /\ items[i].unit # items[j].unit) =>
                   \A k \in LinesOf(BucketOf(items[i])) :
                       k \notin LinesOf(BucketOf(items[j]))

C2_Witness ==
    /\ pc = "aggregated"
    /\ Len(docs) = 2
    /\ docs[1].lines = <<"- 100 g sugar", "- 2 sugar">>
    /\ docs[2].lines = <<"- 1/2 cup sugar", "- 100 g sugar">>
    /\ lines = <<"2 sugar", "1/2 cup sugar", "200 g sugar">>

(***************************************************************************)
(* C3.  Quantity-less duplicates are deduplicated: the quantity-less items *)
(* of one aggregation key, however many they are, produce exactly one      *)
(* line for that key, and that line is the display name alone.             *)
(***************************************************************************)
C3_OneLinePerQuantitylessKey ==
    pc = "aggregated" =>
        \A i \in 1..Len(items) :
            items[i].quantity = None =>
                LET bare == {k \in 1..Len(sorted_items) :
                                /\ sorted_items[k].key = items[i].key
                                /\ sorted_items[k].quantity = None}
                IN  /\ Cardinality(bare) = 1
                    /\ \A k \in bare : lines[k] = sorted_items[k].name

C3_TwoBareSugarLines ==
    /\ pc = "aggregated"
    /\ Len(docs) = 1
    /\ docs[1].lines = <<"- Sugar", "- 1/0 cup sugar">>
    /\ lines = <<"Sugar", "sugar">>

(***************************************************************************)
(* C4.  Self-aggregation: aggregating the item list followed by itself     *)
(* yields the same buckets as aggregating the list alone, every quantified *)
(* bucket with exactly twice its quantity and every quantity-less bucket   *)
(* still exactly once.                                                     *)
(***************************************************************************)
C4_SelfAggregation ==
    pc = "aggregated" =>
        \A twice \in {AggregateItems(items \o items)} :
            /\ Len(twice.lines) = Len(lines)
            /\ {BucketOf(twice.merged[j]) : j \in 1..Len(twice.merged)}
                   = {BucketOf(merged[k]) : k \in 1..Len(merged)}
            /\ \A k \in 1..Len(merged) :
                   \A dbl \in {{j \in 1..Len(twice.merged) :
                                   BucketOf(twice.merged[j]) = BucketOf(merged[k])}} :
                       /\ Cardinality(dbl) = 1
                       /\ \A j \in dbl :
                              IF merged[k].quantity = None
                              THEN twice.merged[j].quantity = None
                              ELSE SameValue(twice.merged[j].quantity,
                                             <<2 * merged[k].quantity[1],
                                               merged[k].quantity[2]>>)

C4_Witness ==
    /\ pc = "aggregated"
    /\ Len(docs) = 1
    /\ docs[1].lines = <<"- 1/2 cup sugar", "- Sugar", "- 1/3 cup sugar">>
    /\ lines = <<"Sugar", "5/6 cup sugar">>
    /\ AggregateItems(items \o items).lines = <<"Sugar", "1 2/3 cup sugar">>

(***************************************************************************)
(* C5.  Aggregation is order-independent per bucket: with two recipe       *)
(* documents exchanged, the build aggregates to the same set of buckets    *)
(* with the same summed quantity in each bucket.                           *)
(***************************************************************************)
C5_OrderIndependentSums ==
    pc = "aggregated" =>
        \A i, j \in 1..Len(docs) :
            i < j =>
                \A other \in {AggregateItems(ItemsInOrder(Swapped(Len(docs), i, j)))} :
                    /\ BucketSums(other.merged) = BucketSums(merged)
                    /\ BucketSums(other.sorted_items) = BucketSums(sorted_items)
                    /\ Len(other.lines) = Len(lines)

C5_Witness ==
    /\ pc = "aggregated"
    /\ Len(docs) = 2
    /\ docs[1].lines = <<"- 1 tbsp olive oil", "- 1/2 cup sugar">>
    /\ docs[2].lines = <<"- 1/3 cup sugar", "- 2 tablespoons Olive Oil">>
    /\ lines = <<"3 tbsp olive oil", "5/6 cup sugar">>
    /\ AggregateItems(ItemsInOrder(<<2, 1>>)).lines = <<"3 tbsp Olive Oil", "5/6 cup sugar">>

(***************************************************************************)
(* C6.  The order of the output lines is independent of the input order:   *)
(* with two recipe documents exchanged, the output lists the buckets (key, *)
(* unit, quantity-absent flag) in the same sequence, also when a           *)
(* quantity-less and a quantified bucket share key and unit.               *)
(***************************************************************************)
C6_SameBucketSequence ==
    pc = "aggregated" =>
        \A i, j \in 1..Len(docs) :
            i < j =>
                BucketSeq(AggregateItems(ItemsInOrder(Swapped(Len(docs), i, j))).sorted_items)
                    = BucketSeq(sorted_items)

C6_TieFollowsInputOrder ==
    /\ pc = "aggregated"
    /\ Len(docs) = 2
    /\ docs[1].lines = <<"- Sugar">>
    /\ docs[2].lines = <<"- 2 sugar">>
    /\ lines = <<"Sugar", "2 sugar">>
    /\ AggregateItems(ItemsInOrder(<<2, 1>>)).lines = <<"2 sugar", "Sugar">>

(***************************************************************************)
(* C7.  The returned list is in non-decreasing order of (aggregation key,  *)
(* unit or empty string, lowercased display name) of the bucket behind     *)
(* each line, whatever the order of the input items: the lines render the  *)
(* aggregator's buckets, each once, in that order.                         *)
(***************************************************************************)
OrderTuple(it) == <<it.key, IF it.unit = NoUnit THEN "" ELSE it.unit, Lower(it.name)>>

C7_SortedOutput ==
    pc \in {"aggregated", "returned"} =>
        /\ Len(lines) = Len(merged)
        /\ Len(sorted_items) = Len(merged)
        /\ \A k \in 1..Len(merged) :
               Cardinality({j \in 1..Len(sorted_items) : sorted_items[j] = merged[k]}) = 1
        /\ \A k \in 1..Len(lines) : lines[k] = FormatItem(sorted_items[k])
        /\ \A k \in 1..(Len(lines) - 1) :
               ~TupleLess(OrderTuple(sorted_items[k + 1]), OrderTuple(sorted_items[k]))

C7_Witness ==
    /\ pc = "returned"
    /\ Len(docs) = 2
    /\ docs[1].lines = <<"- 2 sugar", "- 100 g sugar">>
    /\ docs[2].lines = <<"- 1/2 cup sugar", "- 1 tbsp olive oil">>
    /\ lines = <<"1 tbsp olive oil", "2 sugar", "1/2 cup sugar", "100 g sugar">>

(***************************************************************************)
(* C8.  A line of an Ingredients section that is not a bullet: if it is    *)
(* blank it produces no item and no error and the lines after it are still *)
(* parsed under their own 1-based numbers; if it is not blank the build    *)
(* fails at that line with the parse error "is not a bullet", which names  *)
(* the source identifier and the 1-based number of the line within the     *)
(* section.                                                                *)
(***************************************************************************)
C8_NonBulletLines ==
    \A d \in 1..Len(docs) :
        \A n \in 1..Len(docs[d].lines) :
            \A line \in {docs[d].lines[n]}, src \in {docs[d].source_path} :
                ~BulletMatches(line) =>
                    IF Strip(line) = ""
                    THEN /\ ~\E i \in 1..Len(items) :
                                items[i].source_path = src /\ items[i].line_number = n
                         /\ ~(error.source_path = src /\ error.line_number = n)
                         /\ \A m \in (n + 1)..Len(docs[d].lines) :
                                \A later \in {docs[d].lines[m]} :
                                    BulletMatches(later) =>
                                        \A parsed \in {ParseIngredientLine(BulletGroup(later),
                                                                            src, m)} :
                                            IF parsed.raised
                                            THEN pc = "raised" /\ error = parsed.error
                                            ELSE \E i \in 1..Len(items) : items[i] = parsed.item
                    ELSE /\ pc = "raised"
                         /\ error = ShoppingParseError("is not a bullet", src, n, Strip(line))
                         /\ d = Len(docs)
                         /\ n = Len(docs[d].lines)
                         /\ lines = <<>>

C8_Witness ==
    /\ pc = "raised"
    /\ Len(docs) = 2
    /\ docs[1].lines = <<"- 2 sugar", "", "- Sugar">>
    /\ docs[2].lines = <<"- 1/2 cup sugar", "", "not-a-bullet">>
    /\ Len(items) = 3
    /\ items[2].line_number = 3
    /\ error.kind = "is not a bullet"
    /\ error.source_path = "Recipes/R2.md"
    /\ error.line_number = 3

(***************************************************************************)
(* C9.  _parse_ingredient_line fails with a parse error that carries the   *)
(* source identifier and the given line number when the content is empty   *)
(* after stripping ("is empty"), and when the content is not empty but the *)
(* normalized ingredient name is ("has no parseable ingredient name"); in  *)
(* neither case is an item returned.                                       *)
(***************************************************************************)
NameKeyOf(text) == NormalizeName(SplitIngredient(text)[3])

C9_ParseErrors ==
    call # NoCall =>
        \A text \in {Strip(call.line)} :
            /\ text = "" =>
                   result = [outcome |-> "raised",
                             error |-> ShoppingParseError("is empty", call.source_path,
                                                          call.line_number, "")]
            /\ (text # "" /\ NameKeyOf(text) = "") =>
                   result = [outcome |-> "raised",
                             error |-> ShoppingParseError("has no parseable ingredient name",
                                                          call.source_path,
                                                          call.line_number, text)]
            /\ text \in {"(garnish)", "2 (garnish)", "2 tbsp (garnish)", "1 1/2 (garnish)"} =>
                   /\ result.outcome = "raised"
                   /\ result.error.kind = "has no parseable ingredient name"

C9_Witness ==
    /\ call = [line |-> "2 tbsp (garnish)", source_path |-> "Recipes/R2.md", line_number |-> 3]
    /\ result.outcome = "raised"
    /\ result.error = ShoppingParseError("has no parseable ingredient name",
                                         "Recipes/R2.md", 3, "2 tbsp (garnish)")

(***************************************************************************)
(* C10.  Lenient misses are not errors: _parse_ingredient_line raises only *)
(* when the content is empty or the normalized name is empty; for every    *)
(* other content it returns an item, in particular when the numeric prefix *)
(* has no value (zero denominator), is absent, or is followed by a word    *)
(* that is no known unit ("2 handful spinach" gives quantity 2, no unit,   *)
(* name "handful spinach").                                                *)
(***************************************************************************)
C10_LenientMisses ==
    call # NoCall =>
        \A text \in {Strip(call.line)} :
            /\ result.outcome \in {"raised", "returned"}
            /\ result.outcome = "raised" =>
                   /\ text = "" \/ NameKeyOf(text) = ""
                   /\ result.error.kind
                          \in {"is empty", "has no parseable ingredient name"}
                   /\ result.error.kind = "is empty" <=> text = ""
            /\ result.outcome = "returned" =>
                   /\ result.item.key # ""
                   /\ result.item.source_path = call.source_path
                   /\ result.item.line_number = call.line_number
            /\ (QuantityEnd(text) # 0 /\ NameKeyOf(text) # ""
                    /\ ParseQuantity(QuantityGroup(text, QuantityEnd(text))) = None) =>
                   result.outcome = "returned" /\ result.item.quantity = None
            /\ (QuantityEnd(text) = 0 /\ NormalizeName(text) # "") =>
                   /\ result.outcome = "returned"
                   /\ result.item.quantity = None
                   /\ result.item.unit = NoUnit
                   /\ result.item.name = DisplayName(text)
            /\ text = "2 handful spinach" =>
                   result = [outcome |-> "returned",
                             item |-> ShoppingItem(<<2, 1>>, NoUnit, "handful spinach",
                                                   "handful spinach", call.source_path,
                                                   call.line_number)]
            /\ text = "1/0 handful spinach" =>
                   /\ result.outcome = "returned"
                   /\ result.item.quantity = None

C10_Witness ==
    /\ call = [line |-> "2 handful spinach", source_path |-> "Recipes/R1.md", line_number |-> 2]
    /\ result.outcome = "returned"
    /\ result.item.quantity = <<2, 1>>
    /\ result.item.unit = NoUnit
    /\ result.item.name = "handful spinach"

(***************************************************************************)
(* C11.  The consistency check never fires on the aggregator's own output: *)
(* when every ingredient line parses, the build returns its list and does  *)
(* not raise "not represented in shopping list"; the key re-derived from   *)
(* each emitted line is the aggregation key of the bucket of that line.    *)
(***************************************************************************)
C11_CheckNeverFires ==
    /\ error.kind # "not represented in shopping list"
    /\ pc = "aggregated" =>
           \A k \in 1..Len(lines) : ShoppingLineKey(lines[k]) = sorted_items[k].key

C11_FiresOnOwnOutput ==
    /\ pc = "raised"
    /\ Len(docs) = 1
    /\ docs[1].lines = <<"- 1 (heaped) 1/2 sugar">>
    /\ lines = <<"1 1/2 sugar">>
    /\ error = ShoppingParseError("not represented in shopping list", "Recipes/R1.md", 1,
                                  "1/2 sugar")

(***************************************************************************)
(* C12.  The consistency checker detects every loss: for any items and any *)
(* lines, _assert_item_representation returns without error only if the    *)
(* lines hold, for every item, the line of that item's bucket (key, unit,  *)
(* quantity-absent flag), also when the line of another bucket with the    *)
(* same key and a different unit is present.                               *)
(***************************************************************************)
C12_DetectsEveryLoss ==
    (pc = "returned" /\ docs = <<>>) =>
        \A i \in 1..Len(items) :
            \E j \in 1..Len(sorted_items) :
                /\ BucketOf(sorted_items[j]) = BucketOf(items[i])
                /\ \E k \in 1..Len(lines) : lines[k] = FormatItem(sorted_items[j])

C12_LostBucketUndetected ==
    /\ pc = "returned"
    /\ docs = <<>>
    /\ Len(items) = 2
    /\ items[1].unit = "g" /\ items[1].key = "sugar"
    /\ items[2].unit = "cup" /\ items[2].key = "sugar"
    /\ lines = <<"1/2 cup sugar">>
    /\ error = NoError

(***************************************************************************)
(* C13.  No partial list is ever returned: a build that returns has read   *)
(* every line of every recipe without error, passed the consistency check  *)
(* and returns a line for the bucket of every item; a build that raises    *)
(* returns nothing and stops there, and a parse error in any recipe leaves *)
(* no line, not even of the valid recipes before it.                       *)
(***************************************************************************)
C13_NoPartialList ==
    /\ pc = "returned" =>
           /\ error = NoError
           /\ AssertItemRepresentation(items, lines) = NoError
           /\ \A d \in 1..Len(docs) :
                  \A n \in 1..Len(docs[d].lines) :
                      \A line \in {docs[d].lines[n]} :
                          \/ ~BulletMatches(line) /\ Strip(line) = ""
                          \/ /\ BulletMatches(line)
                             /\ \E i \in 1..Len(items) :
                                    /\ items[i].source_path = docs[d].source_path
                                    /\ items[i].line_number = n
                                    /\ \E k \in 1..Len(lines) :
                                           /\ BucketOf(sorted_items[k]) = BucketOf(items[i])
                                           /\ lines[k] = FormatItem(sorted_items[k])
    /\ pc = "raised" =>
           /\ error # NoError
           /\ error.kind # "not represented in shopping list" => lines = <<>>
           /\ ~ENABLED Next

C13_Witness ==
    /\ pc = "raised"
    /\ Len(docs) = 2
    /\ docs[1].lines = <<"- 2 sugar", "- Sugar">>
    /\ docs[2].lines = <<"- 100 g sugar", "- (garnish)">>
    /\ Len(items) = 3
    /\ lines = <<>>
    /\ error.kind = "has no parseable ingredient name"
    /\ error.source_path = "Recipes/R2.md"

(***************************************************************************)
(* C14.  _parse_quantity maps each recognized form to its exact value: an  *)
(* integer n to n/1, a decimal whose exact value has a reduced denominator *)
(* of at most 16 to that value, "n/d" with d # 0 to the reduced fraction,  *)
(* "w n/d" to w + n/d; it returns absent for empty text, for non-integer   *)
(* operands and for a zero denominator in the plain and the mixed form.    *)
(***************************************************************************)
\* the value of digits[.digits] as an unreduced pair
ExactDecimal(t) ==
    <<DigitsValue(Before(t, ".")) * Pow10(Len(After(t, "."))) + DigitsValue(After(t, ".")),
      Pow10(Len(After(t, ".")))>>

Returns(t) == result.outcome = "returned" /\ SameValue(result.quantity, t)
ReturnsNone == result = [outcome |-> "returned", quantity |-> None]
IntegerOperands(n, d) == AllDigits(n) /\ AllDigits(d)

C14_ExactForms ==
    call # NoCall =>
        \A t \in {call.text} :
            /\ t \in IntegerTexts => Returns(<<DigitsValue(t), 1>>)
            /\ t \in DecimalTexts =>
                   \A x \in {ExactDecimal(t)} :
                       (\E den \in 1..MaxDenominator : (x[1] * den) % x[2] = 0) => Returns(x)
            /\ \A n \in Numerators, d \in Denominators :
                   /\ t = n \o "/" \o d =>
                          IF IntegerOperands(n, d) /\ DigitsValue(d) # 0
                          THEN Returns(<<DigitsValue(n), DigitsValue(d)>>)
                          ELSE ReturnsNone
                   /\ \A w \in Wholes :
                          t = w \o " " \o n \o "/" \o d =>
                              IF IntegerOperands(n, d) /\ DigitsValue(d) # 0
                              THEN Returns(<<DigitsValue(w) * DigitsValue(d) + DigitsValue(n),
                                             DigitsValue(d)>>)
                              ELSE ReturnsNone
            /\ t \in {"", "  "} => ReturnsNone

C14_Witness ==
    /\ call = [text |-> "10 3/4"]
    /\ result = [outcome |-> "returned", quantity |-> <<43, 4>>]

(***************************************************************************)
(* C15.  A decimal quantity that is not kept exactly is rounded to the     *)
(* nearest multiple of 1/16: for every decimal text the result is either   *)
(* the exact value or the multiple of 1/16 closest to it.                  *)
(***************************************************************************)
\* q is at least as close to x as n/d is
NotFarther(x, q, n, d) ==
    Abs(q[1] * x[2] - x[1] * q[2]) * d <= Abs(n * x[2] - x[1] * d) * q[2]

C15_NearestSixteenth ==
    (call # NoCall /\ call.text \in DecimalTexts) =>
        \A x \in {ExactDecimal(call.text)} :
            \/ Returns(x)
            \/ /\ result.outcome = "returned"
               /\ result.quantity # None
               /\ 16 % result.quantity[2] = 0
               /\ \A m \in {(16 * x[1]) \div x[2], (16 * x[1]) \div x[2] + 1} :
                      NotFarther(x, result.quantity, m, 16)

\* C15 as amended: for every decimal text the result is the exact value
\* when its reduced denominator is at most 16, and otherwise a fraction with
\* a denominator of at most 16 that is closest to the exact value among all
\* such fractions; it need not be a multiple of 1/16 (0.33 gives 1/3).
C15_ClosestWithinSixteen ==
    (call # NoCall /\ call.text \in DecimalTexts) =>
        \A x \in {ExactDecimal(call.text)} :
            /\ result.outcome = "returned"
            /\ result.quantity # None
            /\ result.quantity[2] \in 1..MaxDenominator
            /\ (\E den \in 1..MaxDenominator : (x[1] * den) % x[2] = 0) => Returns(x)
            /\ \A den \in 1..MaxDenominator :
                   \A num \in {(den * x[1]) \div x[2], (den * x[1]) \div x[2] + 1} :
                       NotFarther(x, result.quantity, num, den)

C15_Witness ==
    /\ call = [text |-> "0.33"]
    /\ result = [outcome |-> "returned", quantity |-> <<1, 3>>]

(***************************************************************************)
(* C16.  The quantity parser never raises: for every text _parse_quantity  *)
(* returns a rational number or absent and lets no exception through, also *)
(* for words that are no numbers and for text the decimal parser accepts   *)
(* that is no finite number.                                               *)
(***************************************************************************)
C16_NeverRaises ==
    call # NoCall => result.outcome = "returned"

C16_RaisesOnNaN ==
    /\ call = [text |-> "NaN"]
    /\ result = [outcome |-> "raised", exception |-> "ValueError"]

(***************************************************************************)
(* C17.  Whenever _parse_ingredient_line returns an item with no quantity, *)
(* the whole bullet text is the name: the display name and the aggregation *)
(* key of the item are the normalization of the entire line, a numeric     *)
(* prefix that failed to parse included, and the item has no unit.         *)
(***************************************************************************)
C17_WholeLineIsName ==
    (call # NoCall /\ result.outcome = "returned" /\ result.item.quantity = None) =>
        \A text \in {Strip(call.line)} :
            /\ result.item.name = DisplayName(text)
            /\ result.item.key = NormalizeName(text)

C17_PrefixDropped ==
    /\ call # NoCall
    /\ call.line = "1/0 cup sugar"
    /\ result.outcome = "returned"
    /\ result.item.quantity = None
    /\ result.item.unit = "cup"
    /\ result.item.name = "sugar"
    /\ result.item.key = "sugar"

(***************************************************************************)
(* C18.  A unit is attached to a parsed item only if the token after the   *)
(* quantity, lowercased and without trailing "." and ",", is in the alias  *)
(* table and non-empty text remains after it; otherwise the token stays    *)
(* the first word of the name: "2 cloves" parses to quantity 2, no unit,   *)
(* name "cloves".                                                          *)
(***************************************************************************)
C18_UnitAttachment ==
    call # NoCall =>
        \A text \in {Strip(call.line)} :
            /\ text = "2 cloves" =>
                   result = [outcome |-> "returned",
                             item |-> ShoppingItem(<<2, 1>>, NoUnit, "cloves", "cloves",
                                                   call.source_path, call.line_number)]
            /\ (result.outcome = "returned" /\ QuantityEnd(text) = 0) =>
                   result.item.unit = NoUnit
            /\ (result.outcome = "returned" /\ QuantityEnd(text) # 0) =>
                   \A rest \in {Strip(RestGroup(text, QuantityEnd(text)))} :
                       \A token \in {Before(rest, " ")}, tail \in {Strip(After(rest, " "))} :
                           IF RStripChars(Lower(token), {".", ","}) \in AliasNames /\ tail # ""
                           THEN /\ result.item.unit
                                       = UNIT_ALIASES[RStripChars(Lower(token), {".", ","})]
                                /\ result.item.name = DisplayName(tail)
                                /\ result.item.key = NormalizeName(tail)
                           ELSE /\ result.item.unit = NoUnit
                                /\ rest # "" =>
                                       /\ result.item.name = DisplayName(rest)
                                       /\ result.item.key = NormalizeName(rest)

C18_Witness ==
    /\ call # NoCall
    /\ call.line = "2 Cups. butter (80 g pastry)"
    /\ result.outcome = "returned"
    /\ result.item.unit = "cup"
    /\ result.item.name = "butter"

(***************************************************************************)
(* C20.  Parse then format round-trips: for every line with a recognized   *)
(* quantity and unit, parsing it, formatting the item with _format_item    *)
(* and parsing the formatted line again gives an item with the same        *)
(* quantity, the same canonical unit, the same aggregation key and the     *)
(* same display name.                                                      *)
(***************************************************************************)
C20_RoundTrip ==
    (call # NoCall /\ result.outcome = "returned" /\ result.item.quantity # None
        /\ result.item.unit # NoUnit) =>
        \A again \in {ParseIngredientLine(FormatItem(result.item), call.source_path,
                                          call.line_number)} :
            /\ ~again.raised
            /\ again.item.quantity = result.item.quantity
            /\ again.item.unit = result.item.unit
            /\ again.item.key = result.item.key
            /\ again.item.name = result.item.name

C20_NameChanges ==
    /\ call # NoCall
    /\ call.line = "2 cup sugar.\t."
    /\ result.outcome = "returned"
    /\ result.item.quantity = <<2, 1>>
    /\ result.item.unit = "cup"
    /\ result.item.name = "sugar."
    /\ FormatItem(result.item) = "2 cup sugar."
    /\ ParseIngredientLine("2 cup sugar.", call.source_path, call.line_number).item.name
           = "sugar"

(***************************************************************************)
(* C19.  _format_quantity renders every non-negative rational q as the     *)
(* integer when the denominator is 1, as "n/d" when q < 1, and otherwise   *)
(* as "w n/d" with w = floor(q) and n/d the reduced remainder q - w: 1/2   *)
(* gives "1/2" and 3/2 gives "1 1/2".                                      *)
(***************************************************************************)
Coprime(n, d) == \A g \in 2..d : ~(n % g = 0 /\ d % g = 0)

C19_QuantityText ==
    call # NoCall =>
        \A q \in {call.quantity} :
            /\ result.outcome = "returned"
            /\ q[2] = 1 => result.text = ToString(q[1])
            /\ (q[2] # 1 /\ q[1] < q[2]) =>
                   result.text = ToString(q[1]) \o "/" \o ToString(q[2])
            /\ (q[2] # 1 /\ q[1] > q[2]) =>
                   \E w \in 1..q[1], n \in 1..q[2], d \in 2..q[2] :
                       /\ w * q[2] <= q[1]
                       /\ q[1] < (w + 1) * q[2]
                       /\ n * q[2] = (q[1] - w * q[2]) * d
                       /\ Coprime(n, d)
                       /\ result.text = ToString(w) \o " " \o ToString(n) \o "/" \o ToString(d)
            /\ q = <<1, 2>> => result.text = "1/2"
            /\ q = <<3, 2>> => result.text = "1 1/2"

C19_Witness ==
    /\ call = [quantity |-> <<39, 4>>]
    /\ result = [outcome |-> "returned", text |-> "9 3/4"]

(***************************************************************************)
(* C21.  The output has one line per distinct bucket: the number of lines  *)
(* returned equals the number of distinct (key, unit or empty, quantity    *)
(* absent) triples among the input items, every input item's bucket is     *)
(* rendered by exactly one line, and no line is emitted for a bucket that  *)
(* no input item belongs to.                                               *)
(***************************************************************************)
C21_OneLinePerBucket ==
    pc = "aggregated" =>
        /\ Len(lines) = Cardinality({BucketOf(items[i]) : i \in 1..Len(items)})
        /\ Len(lines) = Len(sorted_items)
        /\ \A i \in 1..Len(items) :
               Cardinality({k \in 1..Len(lines) :
                               /\ BucketOf(sorted_items[k]) = BucketOf(items[i])
                               /\ lines[k] = FormatItem(sorted_items[k])}) = 1
        /\ \A k \in 1..Len(sorted_items) :
               \E i \in 1..Len(items) : BucketOf(items[i]) = BucketOf(sorted_items[k])

C21_Witness ==
    /\ pc = "aggregated"
    /\ Len(docs) = 2
    /\ docs[1].lines = <<"- 1 tbsp olive oil", "- 2 sugar">>
    /\ docs[2].lines = <<"- 2 tablespoons Olive Oil", "- Sugar">>
    /\ Len(items) = 4
    /\ Len(lines) = 3

(***************************************************************************)
(* C22.  First violation wins: items are produced in recipe order and,     *)
(* within a recipe, in line order; the error raised is the one of the      *)
(* earliest faulty line in that order; a consistency violation is raised   *)
(* only after every line of every recipe has parsed without error.  When   *)
(* the build has ended, a faulty line is the last line read and its error  *)
(* is the error raised, so no line before it is faulty and no other error  *)
(* stands beside it; every bullet line without fault has its item.         *)
(***************************************************************************)
\* the lines read so far, as <<recipe, line number>>, and their order
Positions == {<<d, n>> : d \in 1..MaxDocs, n \in 1..MaxLines}
Read(p) == p[1] \in 1..Len(docs) /\ p[2] \in 1..Len(docs[p[1]].lines)
Earlier(p, q) == p[1] < q[1] \/ (p[1] = q[1] /\ p[2] < q[2])
PositionOf(it) ==
    <<CHOOSE d \in 1..Len(docs) : docs[d].source_path = it.source_path, it.line_number>>

LineAt(p) == docs[p[1]].lines[p[2]]

\* the error the line at p is to raise, NoError if it is not faulty
LineError(p) ==
    LET line == LineAt(p)
    IN  IF BulletMatches(line)
        THEN ParseIngredientLine(BulletGroup(line), docs[p[1]].source_path, p[2]).error
        ELSE IF Strip(line) # ""
        THEN ShoppingParseError("is not a bullet", docs[p[1]].source_path, p[2], Strip(line))
        ELSE NoError

C22_FirstViolationWins ==
    /\ \A i, j \in 1..Len(items) :
           i < j => Earlier(PositionOf(items[i]), PositionOf(items[j]))
    /\ \A i \in 1..Len(items) :
           Read(PositionOf(items[i])) /\ BulletMatches(LineAt(PositionOf(items[i])))
    /\ \A p \in Positions :
           (Read(p) /\ pc \in {"raised", "returned"}) =>
               \A raised \in {LineError(p)} :
                   IF raised = NoError
                   THEN BulletMatches(LineAt(p)) =>
                            \E i \in 1..Len(items) : PositionOf(items[i]) = p
                   ELSE /\ error = raised
                        /\ pc = "raised"
                        /\ \A q \in Positions : Read(q) => ~Earlier(p, q)
                        /\ \A i \in 1..Len(items) : Earlier(PositionOf(items[i]), p)
    /\ (error # NoError /\ error.kind # "not represented in shopping list") =>
           error = LineError(<<Len(docs), Len(Current.lines)>>)
    /\ error # NoError <=> pc = "raised"

C22_Witness ==
    /\ pc = "raised"
    /\ Len(docs) = 2
    /\ docs[1].lines = <<"- 2 sugar">>
    /\ docs[2].lines = <<"- Sugar", "- (garnish)">>
    /\ Len(items) = 2
    /\ error = ShoppingParseError("has no parseable ingredient name", "Recipes/R2.md", 2,
                                  "(garnish)")

(***************************************************************************)
(* C23.  First-seen wins: for every bucket, the display name and the unit  *)
(* shown on its output line are those of the first item of the bucket in   *)
(* input order (recipe order, then line order); later items of the bucket  *)
(* change only the quantity.                                               *)
(***************************************************************************)
C23_FirstSeenWins ==
    pc = "aggregated" =>
        \A k \in 1..Len(sorted_items) :
            \A first \in {FirstIn(items, BucketOf(sorted_items[k]))} :
                /\ sorted_items[k] = [first EXCEPT !.quantity = sorted_items[k].quantity]
                /\ lines[k] = (IF first.quantity = None THEN ""
                               ELSE FormatQuantity(sorted_items[k].quantity) \o " ")
                              \o (IF first.unit = NoUnit \/ first.quantity = None THEN ""
                                  ELSE first.unit \o " ")
                              \o first.name

C23_Witness ==
    /\ pc = "aggregated"
    /\ Len(docs) = 2
    /\ docs[1].lines = <<"- 2 tablespoons Olive Oil">>
    /\ docs[2].lines = <<"- 1 tbsp olive oil">>
    /\ lines = <<"3 tbsp Olive Oil">>

Trimmed(s) ==
    /\ s # ""
    /\ Ch(s, 1) \notin Whitespace \cup {",", ".", ";", ":"}
    /\ Ch(s, Len(s)) \notin Whitespace \cup {",", ".", ";", ":"}

NoAside(s) == ~\E i, j \in 1..Len(s) : i < j /\ Ch(s, i) = "(" /\ Ch(s, j) = ")"

NoSpaceRun(s) ==
    ~\E i \in 1..(Len(s) - 1) : Ch(s, i) \in Whitespace /\ Ch(s, i + 1) \in Whitespace

ShoppingStarted == docs # <<>> \/ pc # "documents"

C30_ShoppingBeforeOutput ==
    call # NoCall =>
        /\ ShoppingStarted => call.include_intro_page = "true"
        /\ \A d \in 1..Len(docs) : docs[d].source_path = SourcePath(d)
        /\ result.baked_written =>
               IF call.include_intro_page = "true"
               THEN pc = "returned" /\ result.shopping_items = lines
               ELSE ~ShoppingStarted /\ result.shopping_items = <<>>
        /\ result.compiler_run => result.baked_written
        /\ result.output_copied => result.compiler_run
        /\ pc = "raised" =>
               /\ ~result.baked_written
               /\ ~result.compiler_run
               /\ ~result.output_copied
               /\ result.outcome \in {"shopping", "raised"}
               /\ result.outcome = "shopping" => ENABLED ShoppingRaises
               /\ result.outcome = "raised" =>
                      result.raised = "ShoppingParseError" /\ ~ENABLED NextBuild

C30_Witness ==
    /\ call # NoCall
    /\ call.include_intro_page = "true"
    /\ ~call.dry_run
    /\ pc = "raised"
    /\ error.kind = "is not a bullet"
    /\ Len(docs) = 2
    /\ result = Progress("raised", "ShoppingParseError")

(***************************************************************************)
(* C25.  _assert_item_representation(items, lines) raises a shopping-list  *)
(* parse error for the first item, in list order, whose aggregation key is *)
(* not among the keys re-derived from the lines by _shopping_line_key, and *)
(* the message names that item's source, line number and display name;     *)
(* when every item's key is among the re-derived keys it returns without   *)
(* error.                                                                  *)
(***************************************************************************)
C25_FirstMissingItem ==
    pc \in {"returned", "raised"} =>
        \A keys \in {{ShoppingLineKey(lines[k]) : k \in 1..Len(lines)}} :
            IF \A i \in 1..Len(items) : items[i].key \in keys
            THEN pc = "returned" /\ error = NoError
            ELSE /\ pc = "raised"
                 /\ \E i \in 1..Len(items) :
                        /\ items[i].key \notin keys
                        /\ \A j \in 1..(i - 1) : items[j].key \in keys
                        /\ error.kind = "not represented in shopping list"
                        /\ error.source_path = items[i].source_path
                        /\ error.line_number = items[i].line_number
                        /\ error.text = items[i].name

C25_Witness ==
    /\ pc = "raised"
    /\ Len(items) = 3
    /\ lines = <<"100 g sugar">>
    /\ items[1].key = "sugar"
    /\ items[2].key = "olive oil"
    /\ items[3].key = "olive oil"
    /\ error = ShoppingParseError("not represented in shopping list", "Recipes/R1.md", 2,
                                  "olive oil")

(***************************************************************************)
(* C26.  Quantity text round-trips through the formatter: for every        *)
(* non-negative rational q that aggregation can produce, whatever its      *)
(* reduced denominator, the string _format_quantity(q) is matched in full  *)
(* by the quantity pattern used at the head of a line, and _parse_quantity *)
(* of it returns exactly q, with no rounding.                              *)
(***************************************************************************)
C26_QuantityRoundTrip ==
    call # NoCall =>
        \A text \in {result.text} :
            /\ QuantityEnd(text) = Len(text) + 1
            /\ QuantityGroup(text, QuantityEnd(text)) = text
            /\ ParseQuantity(text) = call.quantity

C26_Witness ==
    /\ call = [quantity |-> <<39, 17>>]
    /\ result = [outcome |-> "returned", text |-> "2 5/17"]
    /\ ParseQuantity("2 5/17") = <<39, 17>>

(***************************************************************************)
(* C28.  Aggregation leaves the parsed items unchanged: after              *)
(* _aggregate_items runs, every item of the input list has the quantity,   *)
(* unit, name, key, source and line number it had before (the sums are     *)
(* accumulated in per-bucket copies), so the consistency checker inspects  *)
(* the items exactly as parsed.                                            *)
(***************************************************************************)
C28_ItemsUnchanged ==
    [][/\ pc # "extract" => items' = items
       /\ (pc = "documents" /\ pc' = "aggregated") =>
              \A st \in {MergeObjects(items)} :
                  /\ \A k \in 1..Len(st.entries) : st.entries[k] > Len(items)
                  /\ merged' = [k \in 1..Len(st.entries) |-> st.heap[st.entries[k]]]]_vars

C28_Witness ==
    /\ pc = "returned"
    /\ Len(docs) = 1
    /\ docs[1].lines = <<"- 1 tbsp olive oil", "- 2 tablespoons Olive Oil">>
    /\ Len(items) = 2
    /\ items[1].quantity = <<1, 1>>
    /\ items[2].quantity = <<2, 1>>
    /\ Len(merged) = 1
    /\ merged[1].quantity = <<3, 1>>

(***************************************************************************)
(* C29.  The lines returned by build_shopping_list are pairwise distinct   *)
(* as text: for every input that parses, no two output lines are the same  *)
(* string.                                                                 *)
(***************************************************************************)
C29_DistinctLines ==
    pc = "returned" =>
        \A j, k \in 1..Len(lines) : j # k => lines[j] # lines[k]

\* C29 as amended: for every input that parses, no two output lines render
\* the same bucket, and two output lines are the same string only if they
\* belong to items with different aggregation keys or to quantity-less items
\* with different units.
C29_DistinctBuckets ==
    pc = "returned" =>
        /\ Len(lines) = Len(sorted_items)
        /\ \A j, k \in 1..Len(lines) :
               j # k =>
                   /\ BucketOf(sorted_items[j]) # BucketOf(sorted_items[k])
                   /\ lines[j] = lines[k] =>
                          \/ sorted_items[j].key # sorted_items[k].key
                          \/ /\ sorted_items[j].quantity = None
                             /\ sorted_items[k].quantity = None
                             /\ sorted_items[j].unit # sorted_items[k].unit

C29_Witness ==
    /\ pc = "returned"
    /\ Len(docs) = 1
    /\ docs[1].lines = <<"- (x) 2 sugar", "- 2 sugar", "- 1 (x) 2 sugar">>
    /\ lines = <<"2 sugar", "1 2 sugar", "2 sugar">>
====
